---- MODULE Spec2Model ----
(***************************************************************************)
(* Model of the warehouse dashboard (src/app.py).                          *)
(*                                                                         *)
(* The program is a Streamlit script: every user interaction of a browser  *)
(* session re-executes the script top to bottom against one sqlite file.   *)
(* A script run is modelled as the sequence of its database interactions:  *)
(* init_db (count, seed), the dashboard read, the read of the tab whose     *)
(* button was pressed (with the widget values the run returns and the      *)
(* handler's checks, which are local computation on that read), and the    *)
(* write.  Other sessions' steps may fall between any two of them.         *)
(* Reads whose result the run does not use are not steps.  Rows are kept    *)
(* in insertion order (the order of the AUTOINCREMENT id).                 *)
(***************************************************************************)
EXTENDS Integers, Sequences, FiniteSets, TLC

\* ---------------------------------------------------------------- bounds
MaxStock == 2          \* largest stock the model lets an item reach
MaxNum   == 2          \* largest quantity entered in the movement form
MaxSafe  == 1          \* largest warning threshold entered in the add form
MaxRuns  == 3          \* user interactions (page loads, button presses) of a behaviour

Sessions == {1, 2}     \* browser sessions of the concurrent specification
Names    == {"a", "b"} \* item names a user types
NewCats  == {"x"}      \* category names a user types besides the defaults

\* ------------------------------------------------------- program constants
\* default_cats of init_db: "办公用品", "实验用品", "日常耗材"
default_cats == <<"office", "lab", "daily">>
\* the only option of the category selectbox when cat_list is empty
NoCategory == "add_category_first"
\* defaults of the free-text fields of the add form
NoText == ""
DefaultUnit == "unit"

VARIABLES
    items,        \* table inventory: sequence of rows
    categories,   \* table categories: sequence of names
    pc,           \* per session: position of the script run
    event,        \* per session: the button this run handles
    outcome,      \* per session: message of the handler of this interaction
    low_stock,    \* per session: names of the dashboard's low-stock list
    item_name,    \* per session: selectbox of tab_action
    num,          \* per session: number_input of tab_action
    current,      \* per session: stock of item_name in the run's df
    name,         \* per session: name field of the add form
    category,     \* per session: category selectbox of the add form
    new_cat,      \* per session: text input of the add-category button
    cat_to_del,   \* per session: selectbox of the delete-category button
    item_to_del,  \* per session: selectbox of the delete-item button
    rt,           \* per session: history of a stock-in followed by a stock-out
    runs          \* number of user interactions so far

dbvars  == <<items, categories>>
locals  == <<item_name, num, current, name, category, new_cat, cat_to_del, item_to_del>>
vars == <<items, categories, pc, event, outcome, low_stock,
          item_name, num, current, name, category, new_cat, cat_to_del,
          item_to_del, rt, runs>>

\* ---------------------------------------------------------------- helpers
Range(s) == {s[i] : i \in DOMAIN s}

ItemNames(df) == [i \in DOMAIN df |-> df[i].name]

\* row of df with the given name (df[df["name"] == n] ... .values[0])
RowOf(df, n) == df[CHOOSE i \in DOMAIN df : df[i].name = n]

HasItem(df, n) == \E i \in DOMAIN df : df[i].name = n

StockOf(df, n) == RowOf(df, n).current_stock

NoRT == [phase |-> "none"]

\* ------------------------------------------------------- SQL statements
\* UPDATE inventory SET current_stock = current_stock + ? WHERE name = ?
UpdateStock(tbl, n, delta) ==
    [i \in DOMAIN tbl |->
        IF tbl[i].name = n
        THEN [tbl[i] EXCEPT !.current_stock = @ + delta]
        ELSE tbl[i]]

\* DELETE FROM inventory WHERE name = ?
DeleteItem(tbl, n) == SelectSeq(tbl, LAMBDA r : r.name # n)

\* variant: the WHERE clause is missing
DeleteCategoryAll(cats, n) == <<>>

\* DELETE FROM categories WHERE name = ?
DeleteCategory(cats, n) == SelectSeq(cats, LAMBDA c : c # n)

\* INSERT INTO inventory (...) VALUES (...): the row gets the next id
InsertItem(tbl, row) == Append(tbl, row)

\* INSERT INTO categories (name) VALUES (?)
InsertCategory(cats, n) == Append(cats, n)

\* the row the add form submits
FormRow(n, cat, curr, safe) ==
    [name |-> n, category |-> cat, brand |-> NoText, item_no |-> NoText,
     spec |-> NoText, location |-> NoText, current_stock |-> curr,
     safe_stock |-> safe, unit |-> DefaultUnit]

\* ------------------------------------------------------- pure functions
\* variant: equality does not count as low
IsLowStrict(r) == r.current_stock < r.safe_stock

\* df["current_stock"] <= df["safe_stock"], row by row
IsLow(r) == r.current_stock <= r.safe_stock

\* low_stock_df = df[df["current_stock"] <= df["safe_stock"]]
LowStockDf(df) == SelectSeq(df, IsLow)

\* variant: the check is off by one in favour of the withdrawal
SufficientLax(cur, n) == cur >= n - 1

\* variant: the check refuses to withdraw the whole stock
SufficientStrict(cur, n) == cur > n

\* if current >= num
Sufficient(cur, n) == cur >= n

\* variant: the duplicate check is missing
AddItemCheckNoDup(n, existing_items) == IF n = "" THEN "no_name" ELSE "insert"

\* if not name / elif name in existing_items
AddItemCheck(n, existing_items) ==
    IF n = "" THEN "no_name"
    ELSE IF n \in Range(existing_items) THEN "exists"
    ELSE "insert"

\* variant: the duplicate check is missing
AddCategoryCheckNoDup(c, existing_cats) == c # ""

\* if new_cat and new_cat not in existing_cats
AddCategoryCheck(c, existing_cats) == c # "" /\ c \notin Range(existing_cats)

\* variant: the defaults are never written
NeedsDefaultsNever(cats) == FALSE

\* if c.fetchone()[0] == 0
NeedsDefaults(cats) == Len(cats) = 0

\* ------------------------------------------------------------ the script
\* the buttons of the inventory table, and all buttons
ItemEvents == {"none", "in", "out", "add", "del_item"}
Events == ItemEvents \cup {"add_cat", "del_cat"}

Init ==
    /\ items = <<>>
    /\ categories = <<>>
    /\ pc = [s \in Sessions |-> "idle"]
    /\ event = [s \in Sessions |-> "none"]
    /\ outcome = [s \in Sessions |-> "none"]
    /\ low_stock = [s \in Sessions |-> <<>>]
    /\ item_name = [s \in Sessions |-> ""]
    /\ num = [s \in Sessions |-> 1]
    /\ current = [s \in Sessions |-> 0]
    /\ name = [s \in Sessions |-> ""]
    /\ category = [s \in Sessions |-> ""]
    /\ new_cat = [s \in Sessions |-> ""]
    /\ cat_to_del = [s \in Sessions |-> ""]
    /\ item_to_del = [s \in Sessions |-> ""]
    /\ rt = [s \in Sessions |-> NoRT]
    /\ runs = 0

\* the tab whose handler a run with this event reaches after the dashboard
TabOf(e) ==
    CASE e = "in"       -> "tab_action_in"
      [] e = "out"      -> "tab_action_out"
      [] e = "add"      -> "tab_add"
      [] e = "add_cat"  -> "add_cat"
      [] e = "del_cat"  -> "del_cat"
      [] e = "del_item" -> "del_item"
      [] OTHER          -> "rest"

\* A user interaction (page load, button press) starts a script run.  A
\* press whose button the run does not render (its table is empty by then)
\* is handled by the run as a plain page load.  rt is history: it forgets a
\* stock-in once another button than stock-out is pressed.
StartRun(s, buttons) ==
    /\ pc[s] = "idle"
    /\ runs < MaxRuns
    /\ runs' = runs + 1
    /\ \E e \in buttons :
         /\ event' = [event EXCEPT ![s] = e]
         /\ rt' = IF e \in {"none", "out"} THEN rt ELSE [rt EXCEPT ![s] = NoRT]
    /\ pc' = [pc EXCEPT ![s] = "init_db"]
    /\ UNCHANGED <<dbvars, outcome, low_stock, locals>>

\* init_db: SELECT COUNT(*) FROM categories
InitDbCount(s) ==
    /\ UNCHANGED runs
    /\ pc[s] = "init_db"
    /\ pc' = [pc EXCEPT ![s] = IF NeedsDefaults(categories) THEN "seed" ELSE "dashboard"]
    /\ UNCHANGED <<dbvars, event, outcome, low_stock, locals, rt>>

\* init_db: executemany INSERT of default_cats and commit; a default name
\* that is present violates UNIQUE, the run ends with the exception and the
\* transaction is not committed.
InitDbSeed(s) ==
    /\ UNCHANGED runs
    /\ pc[s] = "seed"
    /\ IF Range(default_cats) \cap Range(categories) = {}
       THEN /\ categories' = categories \o default_cats
            /\ pc' = [pc EXCEPT ![s] = "dashboard"]
            /\ UNCHANGED outcome
       ELSE /\ outcome' = [outcome EXCEPT ![s] = "exception"]
            /\ pc' = [pc EXCEPT ![s] = "rest"]
            /\ UNCHANGED categories
    /\ UNCHANGED <<items, event, low_stock, locals, rt>>

\* tab_dashboard: df = get_data("inventory"), the low-stock list
Dashboard(s) ==
    /\ UNCHANGED runs
    /\ pc[s] = "dashboard"
    /\ low_stock' = [low_stock EXCEPT ![s] = ItemNames(LowStockDf(items))]
    /\ pc' = [pc EXCEPT ![s] = TabOf(event[s])]
    /\ UNCHANGED <<dbvars, event, outcome, locals, rt>>

\* st.rerun() after a write
Rerun(s) ==
    /\ pc' = [pc EXCEPT ![s] = "init_db"]
    /\ event' = [event EXCEPT ![s] = "none"]

\* quantities the model lets a user add to a row of df
InChoices(df) ==
    {c \in Range(ItemNames(df)) \X (1..MaxNum) : StockOf(df, c[1]) + c[2] <= MaxStock}

\* tab_action, stock-in pressed: df, the selectbox and the number input
TabActionIn(s) ==
    /\ UNCHANGED runs
    /\ pc[s] = "tab_action_in"
    /\ IF InChoices(items) = {}
       THEN /\ pc' = [pc EXCEPT ![s] = "rest"]
            /\ UNCHANGED <<item_name, num>>
       ELSE \E c \in InChoices(items) :
            /\ item_name' = [item_name EXCEPT ![s] = c[1]]
            /\ num' = [num EXCEPT ![s] = c[2]]
            /\ pc' = [pc EXCEPT ![s] = "stock_in"]
    /\ UNCHANGED <<dbvars, event, outcome, low_stock, current, name, category,
                   new_cat, cat_to_del, item_to_del, rt>>

\* run_query(UPDATE ... current_stock + ?), st.success, st.rerun
StockIn(s) ==
    /\ UNCHANGED runs
    /\ pc[s] = "stock_in"
    /\ items' = UpdateStock(items, item_name[s], num[s])
    /\ outcome' = [outcome EXCEPT ![s] = "in_ok"]
    /\ rt' = [rt EXCEPT ![s] =
                IF HasItem(items, item_name[s])
                THEN [phase |-> "in", name |-> item_name[s], qty |-> num[s],
                      items |-> items, cats |-> categories]
                ELSE NoRT]
    /\ Rerun(s)
    /\ UNCHANGED <<categories, low_stock, locals>>

\* tab_action, stock-out pressed: df, the widgets, current and the check
TabActionOut(s) ==
    /\ UNCHANGED runs
    /\ pc[s] = "tab_action_out"
    /\ IF items = <<>>
       THEN /\ pc' = [pc EXCEPT ![s] = "rest"]
            /\ UNCHANGED <<item_name, num, current, outcome, rt>>
       ELSE \E n \in Range(ItemNames(items)), q \in 1..MaxNum :
            LET cur == StockOf(items, n)
                follows == rt[s].phase = "in" /\ rt[s].name = n /\ rt[s].qty = q
            IN  /\ item_name' = [item_name EXCEPT ![s] = n]
                /\ num' = [num EXCEPT ![s] = q]
                /\ current' = [current EXCEPT ![s] = cur]
                /\ IF Sufficient(cur, q)
                   THEN /\ pc' = [pc EXCEPT ![s] = "stock_out"]
                        /\ UNCHANGED outcome
                        /\ rt' = [rt EXCEPT ![s] = IF follows THEN @ ELSE NoRT]
                   ELSE /\ pc' = [pc EXCEPT ![s] = "rest"]
                        /\ outcome' = [outcome EXCEPT ![s] = "insufficient"]
                        /\ rt' = [rt EXCEPT ![s] =
                                    IF follows THEN [@ EXCEPT !.phase = "out_failed"]
                                    ELSE NoRT]
    /\ UNCHANGED <<dbvars, event, low_stock, name, category, new_cat,
                   cat_to_del, item_to_del>>

\* run_query(UPDATE ... current_stock - ?), st.success, st.rerun
StockOut(s) ==
    /\ UNCHANGED runs
    /\ pc[s] = "stock_out"
    /\ items' = UpdateStock(items, item_name[s], 0 - num[s])
    /\ outcome' = [outcome EXCEPT ![s] = "out_ok"]
    /\ rt' = [rt EXCEPT ![s] = IF @.phase = "in" THEN [@ EXCEPT !.phase = "out"] ELSE NoRT]
    /\ Rerun(s)
    /\ UNCHANGED <<categories, low_stock, locals>>

\* tab_add, form submitted: cat_list, existing_items, the form and its checks
TabAdd(s) ==
    /\ UNCHANGED runs
    /\ pc[s] = "tab_add"
    /\ \E n \in {""} \cup Names,
          c \in (IF categories = <<>> THEN {NoCategory} ELSE Range(categories)) :
         LET chk == AddItemCheck(n, ItemNames(items))
         IN  /\ name' = [name EXCEPT ![s] = n]
             /\ category' = [category EXCEPT ![s] = c]
             /\ IF chk = "insert"
                THEN /\ pc' = [pc EXCEPT ![s] = "add_insert"]
                     /\ UNCHANGED outcome
                ELSE /\ pc' = [pc EXCEPT ![s] = "rest"]
                     /\ outcome' = [outcome EXCEPT ![s] = chk]
    /\ UNCHANGED <<dbvars, event, low_stock, item_name, num, current, new_cat,
                   cat_to_del, item_to_del, rt>>

\* run_query(INSERT INTO inventory ...), st.success, st.rerun; a name that
\* is present by now violates UNIQUE and the run ends with the exception.
\* The two number inputs of the form do not depend on any read, so they are
\* drawn here, where they are first used.
AddInsert(s) ==
    /\ UNCHANGED runs
    /\ pc[s] = "add_insert"
    /\ \E curr \in 0..MaxStock, safe \in 0..MaxSafe :
         IF HasItem(items, name[s])
         THEN /\ outcome' = [outcome EXCEPT ![s] = "exception"]
              /\ pc' = [pc EXCEPT ![s] = "rest"]
              /\ UNCHANGED <<items, event>>
         ELSE /\ items' = InsertItem(items, FormRow(name[s], category[s], curr, safe))
              /\ outcome' = [outcome EXCEPT ![s] = "add_ok"]
              /\ Rerun(s)
    /\ UNCHANGED <<categories, low_stock, locals, rt>>

\* tab_settings, add-category pressed: existing_cats and the check
AddCat(s) ==
    /\ UNCHANGED runs
    /\ pc[s] = "add_cat"
    /\ \E c \in {""} \cup Range(default_cats) \cup NewCats :
         /\ new_cat' = [new_cat EXCEPT ![s] = c]
         /\ IF AddCategoryCheck(c, categories)
            THEN /\ pc' = [pc EXCEPT ![s] = "cat_insert"]
                 /\ UNCHANGED outcome
            ELSE /\ pc' = [pc EXCEPT ![s] = "rest"]
                 /\ outcome' = [outcome EXCEPT ![s] = "cat_invalid"]
    /\ UNCHANGED <<dbvars, event, low_stock, item_name, num, current, name,
                   category, cat_to_del, item_to_del, rt>>

\* run_query(INSERT INTO categories ...), st.success, st.rerun
CatInsert(s) ==
    /\ UNCHANGED runs
    /\ pc[s] = "cat_insert"
    /\ IF new_cat[s] \in Range(categories)
       THEN /\ outcome' = [outcome EXCEPT ![s] = "exception"]
            /\ pc' = [pc EXCEPT ![s] = "rest"]
            /\ UNCHANGED <<categories, event>>
       ELSE /\ categories' = InsertCategory(categories, new_cat[s])
            /\ outcome' = [outcome EXCEPT ![s] = "cat_ok"]
            /\ Rerun(s)
    /\ UNCHANGED <<items, low_stock, locals, rt>>

\* tab_settings, delete-category pressed: cat_options, selectbox, checkbox
DelCat(s) ==
    /\ UNCHANGED runs
    /\ pc[s] = "del_cat"
    /\ IF categories = <<>>
       THEN /\ pc' = [pc EXCEPT ![s] = "rest"]
            /\ UNCHANGED <<cat_to_del, outcome>>
       ELSE \E c \in Range(categories), confirm_del \in BOOLEAN :
            /\ cat_to_del' = [cat_to_del EXCEPT ![s] = c]
            /\ IF confirm_del
               THEN /\ pc' = [pc EXCEPT ![s] = "cat_delete"]
                    /\ UNCHANGED outcome
               ELSE /\ pc' = [pc EXCEPT ![s] = "rest"]
                    /\ outcome' = [outcome EXCEPT ![s] = "need_confirm"]
    /\ UNCHANGED <<dbvars, event, low_stock, item_name, num, current, name,
                   category, new_cat, item_to_del, rt>>

\* run_query(DELETE FROM categories ...), st.warning, st.rerun
CatDelete(s) ==
    /\ UNCHANGED runs
    /\ pc[s] = "cat_delete"
    /\ categories' = DeleteCategory(categories, cat_to_del[s])
    /\ outcome' = [outcome EXCEPT ![s] = "cat_deleted"]
    /\ Rerun(s)
    /\ UNCHANGED <<items, low_stock, locals, rt>>

\* tab_settings, delete-item pressed: inv_df and the selectbox
DelItem(s) ==
    /\ UNCHANGED runs
    /\ pc[s] = "del_item"
    /\ IF items = <<>>
       THEN /\ pc' = [pc EXCEPT ![s] = "rest"]
            /\ UNCHANGED item_to_del
       ELSE \E n \in Range(ItemNames(items)) :
            /\ item_to_del' = [item_to_del EXCEPT ![s] = n]
            /\ pc' = [pc EXCEPT ![s] = "item_delete"]
    /\ UNCHANGED <<dbvars, event, outcome, low_stock, item_name, num, current,
                   name, category, new_cat, cat_to_del, rt>>

\* run_query(DELETE FROM inventory ...), st.error, st.rerun
ItemDelete(s) ==
    /\ UNCHANGED runs
    /\ pc[s] = "item_delete"
    /\ items' = DeleteItem(items, item_to_del[s])
    /\ outcome' = [outcome EXCEPT ![s] = "item_deleted"]
    /\ Rerun(s)
    /\ UNCHANGED <<categories, low_stock, locals, rt>>

\* the rest of the script renders and the run ends; the page waits for the
\* next interaction.  outcome and the widget values describe one interaction
\* (the handler's run and the rerun it asks for) and are dropped here.
Rest(s) ==
    /\ UNCHANGED runs
    /\ pc[s] = "rest"
    /\ pc' = [pc EXCEPT ![s] = "idle"]
    /\ event' = [event EXCEPT ![s] = "none"]
    /\ outcome' = [outcome EXCEPT ![s] = "none"]
    /\ low_stock' = [low_stock EXCEPT ![s] = <<>>]
    /\ item_name' = [item_name EXCEPT ![s] = ""]
    /\ num' = [num EXCEPT ![s] = 1]
    /\ current' = [current EXCEPT ![s] = 0]
    /\ name' = [name EXCEPT ![s] = ""]
    /\ category' = [category EXCEPT ![s] = ""]
    /\ new_cat' = [new_cat EXCEPT ![s] = ""]
    /\ cat_to_del' = [cat_to_del EXCEPT ![s] = ""]
    /\ item_to_del' = [item_to_del EXCEPT ![s] = ""]
    /\ rt' = [rt EXCEPT ![s] = IF @.phase \in {"out", "out_failed"} THEN NoRT ELSE @]
    /\ UNCHANGED dbvars

\* the steps of a run that handles a button of the inventory table
ItemStep(s) ==
    \/ InitDbCount(s)
    \/ InitDbSeed(s)
    \/ Dashboard(s)
    \/ TabActionIn(s)
    \/ StockIn(s)
    \/ TabActionOut(s)
    \/ StockOut(s)
    \/ TabAdd(s)
    \/ AddInsert(s)
    \/ DelItem(s)
    \/ ItemDelete(s)
    \/ Rest(s)

\* the steps of the category buttons
CategoryStep(s) ==
    \/ AddCat(s)
    \/ CatInsert(s)
    \/ DelCat(s)
    \/ CatDelete(s)

\* Two sessions working on the inventory table, their database
\* interactions interleaved.
Next == \E s \in Sessions : StartRun(s, ItemEvents) \/ ItemStep(s)
Spec == Init /\ [][Next]_vars

\* One active session, every button: each run completes before the next
\* interaction.
NextSerial == StartRun(1, Events) \/ ItemStep(1) \/ CategoryStep(1)
SpecSerial == Init /\ [][NextSerial]_vars

\* ================================================================ claims
\* a session took the step that leaves position p for position q
Took(s, p, q) == pc[s] = p /\ pc'[s] = q

Count(seq, x) == Cardinality({i \in DOMAIN seq : seq[i] = x})

\* ---------------------------------------------------------------------
\* C1: with one active session, every stored item has current_stock >= 0
\* in every reachable state, whatever sequence of add, stock-in, stock-out,
\* delete and category operations was issued.
C1_StockNeverNegative ==
    \A i \in DOMAIN items : items[i].current_stock >= 0

\* a withdrawal has emptied an item's stock
C1_Witness ==
    \E s \in Sessions :
        /\ outcome[s] = "out_ok"
        /\ HasItem(items, item_name[s])
        /\ StockOf(items, item_name[s]) = 0

\* ---------------------------------------------------------------------
\* C2: a withdrawal of a quantity larger than the item's current stock
\* ends with the insufficient-stock message and the run writes nothing:
\* the run goes on to its end and both tables are as before.
C2_InsufficientNoWrite ==
    [][\A s \in Sessions :
         ( /\ pc[s] = "tab_action_out"
           /\ pc'[s] # "tab_action_out"
           /\ items # <<>>
           /\ num'[s] > StockOf(items, item_name'[s]) )
         => ( /\ outcome'[s] = "insufficient"
              /\ pc'[s] = "rest"
              /\ items' = items
              /\ categories' = categories )]_vars

\* stock 1, withdrawal of 2 refused, stock still 1
C2_Witness ==
    \E s \in Sessions :
        /\ pc[s] = "rest"
        /\ outcome[s] = "insufficient"
        /\ HasItem(items, item_name[s])
        /\ StockOf(items, item_name[s]) = 1
        /\ num[s] = 2

\* ---------------------------------------------------------------------
\* C3: item names are unique in every reachable state; a successful add
\* leaves the new name in the table exactly once; an add whose name is
\* empty or equals an existing name ends with a validation message and
\* leaves the table unchanged.
C3_ItemNamesUnique ==
    /\ [](\A i, j \in DOMAIN items : items[i].name = items[j].name => i = j)
    /\ [][\A s \in Sessions :
            /\ ( Took(s, "add_insert", "init_db")
                 => /\ outcome'[s] = "add_ok"
                    /\ Count(ItemNames(items'), name[s]) = 1 )
            /\ ( ( /\ pc[s] = "tab_add"
                   /\ pc'[s] # "tab_add"
                   /\ (name'[s] = "" \/ HasItem(items, name'[s])) )
                 => /\ outcome'[s] = (IF name'[s] = "" THEN "no_name" ELSE "exists")
                    /\ pc'[s] = "rest"
                    /\ items' = items )]_vars

\* an add with the name of a stored item was refused
C3_Witness ==
    \E s \in Sessions :
        /\ outcome[s] = "exists"
        /\ Count(ItemNames(items), name[s]) = 1

\* ---------------------------------------------------------------------
\* C4: category names are unique in every reachable state; adding an empty
\* or existing name ends with the validation message and writes nothing;
\* any other name is appended.
C4_CategoryNamesUnique ==
    /\ [](\A i, j \in DOMAIN categories : categories[i] = categories[j] => i = j)
    /\ [][\A s \in Sessions :
            /\ ( ( /\ pc[s] = "add_cat"
                   /\ pc'[s] # "add_cat"
                   /\ (new_cat'[s] = "" \/ Count(categories, new_cat'[s]) > 0) )
                 => /\ outcome'[s] = "cat_invalid"
                    /\ pc'[s] = "rest"
                    /\ categories' = categories )
            /\ ( ( /\ pc[s] = "add_cat"
                   /\ pc'[s] # "add_cat"
                   /\ new_cat'[s] # ""
                   /\ Count(categories, new_cat'[s]) = 0 )
                 => pc'[s] = "cat_insert" )
            /\ ( pc[s] = "cat_insert" /\ pc'[s] # "cat_insert"
                 => /\ outcome'[s] = "cat_ok"
                    /\ Len(categories') = Len(categories) + 1
                    /\ categories'[Len(categories')] = new_cat[s]
                    /\ \A k \in DOMAIN categories : categories'[k] = categories[k] )]_vars

\* the category "x" was added once and its second add was refused
C4_Witness ==
    \E s \in Sessions :
        /\ outcome[s] = "cat_invalid"
        /\ new_cat[s] = "x"
        /\ Count(categories, "x") = 1

\* ---------------------------------------------------------------------
\* C5: the dashboard's low-stock list names exactly the items with
\* current_stock <= safe_stock, each once, in table order; an item at its
\* threshold is listed, one above it is not.  After a withdrawal that takes
\* an item to or below its threshold, the next dashboard lists it.
PosOf(df, n) == CHOOSE i \in DOMAIN df : df[i].name = n

LowListOf(L, df) ==
    /\ \A k \in DOMAIN L : HasItem(df, L[k])
    /\ \A i \in DOMAIN df :
         IF df[i].current_stock > df[i].safe_stock
         THEN Count(L, df[i].name) = 0
         ELSE Count(L, df[i].name) = 1
    /\ \A k1, k2 \in DOMAIN L : k1 < k2 => PosOf(df, L[k1]) < PosOf(df, L[k2])

C5_LowStockList ==
    /\ [][\A s \in Sessions :
            (pc[s] = "dashboard" /\ pc'[s] # "dashboard")
            => LowListOf(low_stock'[s], items)]_vars
    /\ [](\A s \in Sessions :
            ( /\ pc[s] = "rest"
              /\ outcome[s] = "out_ok"
              /\ HasItem(items, item_name[s])
              /\ RowOf(items, item_name[s]).current_stock
                   <= RowOf(items, item_name[s]).safe_stock )
            => Count(low_stock[s], item_name[s]) = 1)

\* a withdrawal took an item from above its threshold to exactly the
\* threshold, and the dashboard of the following run lists it
C5_Witness ==
    \E s \in Sessions :
        /\ pc[s] = "rest"
        /\ outcome[s] = "out_ok"
        /\ HasItem(items, item_name[s])
        /\ LET r == RowOf(items, item_name[s])
           IN  /\ r.current_stock = r.safe_stock
               /\ r.current_stock + num[s] > r.safe_stock
        /\ Count(low_stock[s], item_name[s]) = 1

\* ---------------------------------------------------------------------
\* C6: a stock-in of q followed by a stock-out of q on the same item both
\* succeed and leave both tables as they were before the pair.
C6_RoundTrip ==
    \A s \in Sessions :
        /\ rt[s].phase # "out_failed"
        /\ rt[s].phase = "out" => (items = rt[s].items /\ categories = rt[s].cats)

\* a stock-in and the stock-out that followed it have both been written
C6_Witness ==
    \E s \in Sessions : rt[s].phase = "out" /\ outcome[s] = "out_ok"

\* ---------------------------------------------------------------------
\* C7: a stock-in, stock-out or delete whose item is not in the table when
\* the statement runs ends with a not-found outcome and changes nothing.
C7_NotFound ==
    [][\A s \in Sessions :
         ( \/ (Took(s, "stock_in", "init_db") /\ ~HasItem(items, item_name[s]))
           \/ (Took(s, "stock_out", "init_db") /\ ~HasItem(items, item_name[s]))
           \/ (Took(s, "item_delete", "init_db") /\ ~HasItem(items, item_to_del[s])) )
         => (outcome'[s] = "not_found" /\ items' = items)]_vars

\* ---------------------------------------------------------------------
\* C8: a withdrawal whose check read the stock the UPDATE finds (no other
\* write in between) leaves the stock >= 0; two sessions interleaving their
\* reads and writes on one item can take it below 0.
C8_FreshReadKeepsStock ==
    [][\A s \in Sessions :
         ( /\ Took(s, "stock_out", "init_db")
           /\ HasItem(items, item_name[s])
           /\ StockOf(items, item_name[s]) = current[s] )
         => StockOf(items', item_name[s]) >= 0]_vars

\* interleaved withdrawals have taken a stock below zero
C8_Witness ==
    \E i \in DOMAIN items : items[i].current_stock < 0

\* ---------------------------------------------------------------------
\* C9: deleting a category removes exactly that row, whether or not items
\* reference it; every item row, the category field included, and every
\* other category stay as they were.
C9_DeleteCategoryFrame ==
    [][\A s \in Sessions :
         /\ ( ( /\ pc[s] = "del_cat"
                /\ pc'[s] # "del_cat"
                /\ categories # <<>>
                /\ outcome'[s] # "need_confirm" )
              => pc'[s] = "cat_delete" )
         /\ ( (pc[s] = "cat_delete" /\ pc'[s] # "cat_delete")
              => /\ outcome'[s] = "cat_deleted"
                 /\ items' = items
                 /\ Count(categories', cat_to_del[s]) = 0
                 /\ Len(categories') = Len(categories) - Count(categories, cat_to_del[s])
                 /\ \A k \in DOMAIN categories' :
                      \E j \in DOMAIN categories :
                         /\ categories'[k] = categories[j]
                         /\ j - k \in {0, 1}
                         /\ (j = k + 1) <=> (\E m \in 1..k : categories[m] = cat_to_del[s]) )]_vars

\* a category was deleted while an item still names it
C9_Witness ==
    \E s \in Sessions :
        /\ outcome[s] = "cat_deleted"
        /\ Count(categories, cat_to_del[s]) = 0
        /\ categories # <<>>
        /\ \E i \in DOMAIN items : items[i].category = cat_to_del[s]

\* ---------------------------------------------------------------------
\* C10: every run starts with init_db, which writes the defaults exactly
\* when the categories table is empty; so with one active session no read
\* of a run finds the table empty, and a deleted default comes back once
\* the last category is deleted.
C10_DefaultsReseeded ==
    /\ [](\A s \in Sessions :
            pc[s] \notin {"idle", "init_db", "seed"} => categories # <<>>)
    /\ [][\A s \in Sessions :
            /\ ( pc[s] # pc'[s] /\ pc[s] \in {"idle", "stock_in", "stock_out",
                     "cat_delete", "item_delete"}
                 => pc'[s] = "init_db" )
            /\ ( (pc[s] = "init_db" /\ pc'[s] # "init_db")
                 => /\ pc'[s] = (IF categories = <<>> THEN "seed" ELSE "dashboard")
                    /\ categories' = categories )
            /\ ( (pc[s] = "seed" /\ pc'[s] # "seed")
                 => /\ categories = <<>>
                    /\ categories' = <<"office", "lab", "daily">> )
            /\ ( (Len(categories') > Len(categories) + 1)
                 => \E u \in Sessions : pc[u] = "seed" /\ categories = <<>> )]_vars

\* the last category was deleted and the following run wrote the defaults,
\* the deleted one among them
C10_Witness ==
    \E s \in Sessions :
        /\ pc[s] = "rest"
        /\ outcome[s] = "cat_deleted"
        /\ Count(categories, cat_to_del[s]) = 1
        /\ Len(categories) = 3
        /\ event[s] = "none"
====
